---- MODULE Spec2Model ----
(***************************************************************************)
(* Model of dms_variant: the position-agnostic Mutation classes            *)
(* (mutation.py) and the Variant dataclass with its regex-driven parser    *)
(* and formatter (variant.py).                                             *)
(*                                                                         *)
(* A Python str is modelled as a sequence of one-character strings, so     *)
(* that prefix tests, slicing, regex matching, int() and decimal           *)
(* formatting are computed character by character.  The code point         *)
(* U+0663 (ARABIC-INDIC DIGIT THREE) is written "u0663" and stands for     *)
(* the non-ASCII decimal digits that both \d and int() accept.             *)
(***************************************************************************)
EXTENDS Integers, Sequences, FiniteSets

VARIABLES pc, op, text, start, end, val, fmt, back

vars == <<pc, op, text, start, end, val, fmt, back>>

(***************************************************************************)
(* Bounds of the explored inputs.                                          *)
(***************************************************************************)
MaxTokens == 4
MaxSliceTokens == 4
MaxIdx == 2
MaxPayloadTokens == 2
MaxPos == 11
MaxDel == 10

(***************************************************************************)
(* Characters.                                                             *)
(***************************************************************************)
UpperLetters ==
    {"A", "B", "C", "D", "E", "F", "G", "H", "I", "J", "K", "L", "M",
     "N", "O", "P", "Q", "R", "S", "T", "U", "V", "W", "X", "Y", "Z"}

AsciiDigits == <<"0", "1", "2", "3", "4", "5", "6", "7", "8", "9">>

UnicodeDigits == {"u0663"}

Whitespace == {" ", "\t", "\n", "\r"}

\* The class \d of a str pattern, which is also the set of digits int() reads.
IsDigit(c) == (\E d \in 1..10 : AsciiDigits[d] = c) \/ c \in UnicodeDigits

DigitValue(c) ==
    IF c = "u0663" THEN 3 ELSE (CHOOSE d \in 1..10 : AsciiDigits[d] = c) - 1

AllDigits(s) == \A i \in 1..Len(s) : IsDigit(s[i])

AllUpper(s) == \A i \in 1..Len(s) : s[i] \in UpperLetters

StartsWith(s, p) == Len(s) >= Len(p) /\ SubSeq(s, 1, Len(p)) = p

StrWildtype == <<"w", "i", "l", "d", "t", "y", "p", "e">>
StrEq == <<"=">>
StrIns == <<"i", "n", "s">>
StrDel == <<"d", "e", "l">>

\* Optional[int] arguments of Variant.parse
None == [given |-> FALSE, idx |-> 0]
Some(n) == [given |-> TRUE, idx |-> n]

(***************************************************************************)
(* int(str): surrounding whitespace is stripped, one sign is allowed,      *)
(* then decimal digits with single underscores between digits.             *)
(***************************************************************************)
RECURSIVE LStrip(_)
LStrip(s) ==
    IF s # <<>> /\ s[1] \in Whitespace THEN LStrip(Tail(s)) ELSE s

RECURSIVE RStrip(_)
RStrip(s) ==
    IF s # <<>> /\ s[Len(s)] \in Whitespace
    THEN RStrip(SubSeq(s, 1, Len(s) - 1))
    ELSE s

RECURSIVE DigitsValue(_, _)
DigitsValue(s, acc) ==
    IF s = <<>> THEN acc
    ELSE IF s[1] = "_" THEN DigitsValue(Tail(s), acc)
    ELSE DigitsValue(Tail(s), acc * 10 + DigitValue(s[1]))

IntLiteralOk(d) ==
    /\ d # <<>>
    /\ IsDigit(d[1])
    /\ IsDigit(d[Len(d)])
    /\ \A i \in 1..Len(d) : IsDigit(d[i]) \/ d[i] = "_"
    /\ \A i \in 1..(Len(d) - 1) : ~(d[i] = "_" /\ d[i + 1] = "_")

PyInt(s) ==
    LET body == RStrip(LStrip(s))
        signed == body # <<>> /\ body[1] \in {"+", "-"}
        digits == IF signed THEN Tail(body) ELSE body
    IN  IF IntLiteralOk(digits)
        THEN [ok |-> TRUE,
              value |-> IF signed /\ body[1] = "-"
                        THEN 0 - DigitsValue(digits, 0)
                        ELSE DigitsValue(digits, 0)]
        ELSE [ok |-> FALSE, value |-> 0]

(***************************************************************************)
(* str(int), as used by the f-strings of __str__.                          *)
(***************************************************************************)
RECURSIVE Decimal(_)
Decimal(n) ==
    IF n < 0 THEN <<"-">> \o Decimal(0 - n)
    ELSE IF n < 10 THEN <<AsciiDigits[n + 1]>>
    ELSE Decimal(n \div 10) \o <<AsciiDigits[(n % 10) + 1]>>

(***************************************************************************)
(* variant[start:end] for a str and two Optional[int] bounds.              *)
(***************************************************************************)
SliceBound(b, len, default) ==
    IF ~b.given THEN default
    ELSE IF b.idx < 0 THEN (IF b.idx + len < 0 THEN 0 ELSE b.idx + len)
    ELSE IF b.idx > len THEN len
    ELSE b.idx

\* a given end bound taken as the index of the last character kept
PySliceInclusiveEnd(s, st, en) ==
    LET lo == SliceBound(st, Len(s), 0)
        hi == SliceBound(en, Len(s), Len(s))
        last == IF en.given /\ hi < Len(s) THEN hi + 1 ELSE hi
    IN  IF last <= lo THEN <<>> ELSE SubSeq(s, lo + 1, last)

PySlice(s, st, en) ==
    LET lo == SliceBound(st, Len(s), 0)
        hi == SliceBound(en, Len(s), Len(s))
    IN  IF hi <= lo THEN <<>> ELSE SubSeq(s, lo + 1, hi)

(***************************************************************************)
(* mutation.py                                                             *)
(***************************************************************************)
MutationType == {"WT", "SUB", "DEL", "INS"}

Mutation(mutation_type, mutation) ==
    [mutation_type |-> mutation_type, mutation |-> mutation]

Wildtype == Mutation("WT", 0)
Missense(mutation) == Mutation("SUB", mutation)
Insertion(mutation) == Mutation("INS", mutation)
Deletion(mutation) == Mutation("DEL", mutation)

\* Mutation.__eq__: the type is compared first, the payload only when it agrees
MutationEq(a, b) ==
    a.mutation_type = b.mutation_type /\ a.mutation = b.mutation

\* Results of the calls: a Mutation, a Variant, or the ValueError raised
NoValue == [tag |-> "None"]
MutationValue(m) == [tag |-> "Mutation", m |-> m]
VariantValue(v) == [tag |-> "Variant", v |-> v]
Raised(err) == [tag |-> "Error", err |-> err]

\* the substitution fallback taken before the "del" prefix is looked at
MutationFromStrFallbackFirst(mutation) ==
    IF mutation = StrEq THEN MutationValue(Wildtype)
    ELSE IF StartsWith(mutation, StrIns)
    THEN MutationValue(Insertion(SubSeq(mutation, 4, Len(mutation))))
    ELSE MutationValue(Missense(mutation))

MutationFromStr(mutation) ==
    IF mutation = StrEq THEN MutationValue(Wildtype)
    ELSE IF StartsWith(mutation, StrIns)
    THEN MutationValue(Insertion(SubSeq(mutation, 4, Len(mutation))))
    ELSE IF StartsWith(mutation, StrDel)
    THEN LET n == PyInt(SubSeq(mutation, 4, Len(mutation)))
         IN  IF n.ok THEN MutationValue(Deletion(n.value))
             ELSE Raised("InvalidDeletionLength")
    ELSE MutationValue(Missense(mutation))

MutationStr(m) ==
    CASE m.mutation_type = "WT" -> StrEq
      [] m.mutation_type = "SUB" -> m.mutation
      [] m.mutation_type = "INS" -> StrIns \o m.mutation
      [] m.mutation_type = "DEL" -> StrDel \o Decimal(m.mutation)

(***************************************************************************)
(* variant.py                                                              *)
(***************************************************************************)
RECURSIVE DigitRun(_, _)
DigitRun(s, i) ==
    IF i <= Len(s) /\ IsDigit(s[i]) THEN 1 + DigitRun(s, i + 1) ELSE 0

\* the group (?P<mutation>[A-Z]|del\d+|ins[A-Z]+) followed by the end anchor
MutationGroupMatches(m) ==
    \/ Len(m) = 1 /\ m[1] \in UpperLetters
    \/ StartsWith(m, StrDel) /\ Len(m) > 3 /\ AllDigits(SubSeq(m, 4, Len(m)))
    \/ StartsWith(m, StrIns) /\ Len(m) > 3 /\ AllUpper(SubSeq(m, 4, Len(m)))

\* the same group without the end anchor: the alternatives match a prefix
MutationGroupMatchesPrefix(m) ==
    \/ Len(m) >= 1 /\ m[1] \in UpperLetters
    \/ StartsWith(m, StrDel) /\ Len(m) > 3 /\ IsDigit(m[4])
    \/ StartsWith(m, StrIns) /\ Len(m) > 3 /\ m[4] \in UpperLetters

NoMatch == [matched |-> FALSE]

Groups(s, k) ==
    [matched |-> TRUE,
     wildtype |-> <<s[1]>>,
     position |-> SubSeq(s, 2, k + 1),
     mutation |-> SubSeq(s, k + 2, Len(s))]

\* VARIANT_PATTERN.match: nothing has to follow the mutation group
VariantPatternMatchPrefix(s) ==
    IF s = <<>> \/ s[1] \notin UpperLetters THEN NoMatch
    ELSE LET run == DigitRun(s, 2)
             ks == {k \in 1..run :
                      MutationGroupMatchesPrefix(SubSeq(s, k + 2, Len(s)))}
         IN  IF ks = {} THEN NoMatch
             ELSE Groups(s, CHOOSE k \in ks : \A j \in ks : j <= k)

\* VARIANT_PATTERN.fullmatch: [A-Z], then \d+ greedy with backtracking, then
\* the mutation group, which has to end the text
VariantPatternFullmatch(s) ==
    IF s = <<>> \/ s[1] \notin UpperLetters THEN NoMatch
    ELSE LET run == DigitRun(s, 2)
             ks == {k \in 1..run :
                      MutationGroupMatches(SubSeq(s, k + 2, Len(s)))}
         IN  IF ks = {} THEN NoMatch
             ELSE Groups(s, CHOOSE k \in ks : \A j \in ks : j <= k)

Variant(wildtype, position, mutation) ==
    [wildtype |-> wildtype, position |-> position, mutation |-> mutation]

\* the dataclass __eq__: the three fields compared in order
VariantEq(a, b) ==
    /\ a.wildtype = b.wildtype
    /\ a.position = b.position
    /\ MutationEq(a.mutation, b.mutation)

\* the position rendered after the mutation instead of before it
VariantStrPositionLast(v) ==
    IF v.mutation.mutation_type = "WT" THEN StrEq
    ELSE v.wildtype \o MutationStr(v.mutation) \o Decimal(v.position)

VariantStr(v) ==
    IF v.mutation.mutation_type = "WT" THEN StrEq
    ELSE v.wildtype \o Decimal(v.position) \o MutationStr(v.mutation)

FromDel(wildtype, position, length) ==
    Variant(wildtype, position, Deletion(length))

FromIns(wildtype, position, sequence) ==
    Variant(wildtype, position, Insertion(sequence))

\* the sentinel built with the position of a real residue
FromWildtypeOneBased == Variant(<<>>, 1, Wildtype)

FromWildtype == Variant(<<>>, 0, Wildtype)

FromSub(wildtype, position, mutation) ==
    Variant(wildtype, position, Missense(mutation))

\* only "=" is taken for the wildtype
FromStrEqOnly(variant) ==
    IF variant = StrEq THEN VariantValue(FromWildtype)
    ELSE LET match == VariantPatternFullmatch(variant)
         IN  IF ~match.matched THEN Raised("InvalidVariant")
             ELSE LET m == MutationFromStr(match.mutation)
                  IN  IF m.tag = "Error" THEN m
                      ELSE VariantValue(Variant(match.wildtype,
                                                PyInt(match.position).value,
                                                m.m))

FromStr(variant) ==
    IF variant \in {StrWildtype, StrEq} THEN VariantValue(FromWildtype)
    ELSE LET match == VariantPatternFullmatch(variant)
         IN  IF ~match.matched THEN Raised("InvalidVariant")
             ELSE LET m == MutationFromStr(match.mutation)
                  IN  IF m.tag = "Error" THEN m
                      ELSE VariantValue(Variant(match.wildtype,
                                                PyInt(match.position).value,
                                                m.m))

Parse(variant, st, en) == FromStr(PySlice(variant, st, en))

(***************************************************************************)
(* Inputs of the calls.  A text is a concatenation of a few tokens, so     *)
(* that the keywords of the grammar occur among arbitrary neighbours.      *)
(***************************************************************************)
RECURSIVE TokenTexts(_, _)
TokenTexts(tokens, n) ==
    IF n = 0 THEN {<<>>}
    ELSE LET shorter == TokenTexts(tokens, n - 1)
         IN  shorter \cup {p \o t : p \in shorter, t \in tokens}

Tokens ==
    {<<"A">>, <<"a">>, <<"0">>, <<"1">>, <<"-">>, StrEq, StrDel, StrIns}

Texts == TokenTexts(Tokens, MaxTokens) \cup {StrWildtype}

\* texts for Mutation.from_str, with the characters int() is lenient about
MutationTokens ==
    {<<"A">>, <<"0">>, <<"1">>, <<"-">>, <<"+">>, <<"_">>, <<" ">>,
     StrEq, StrDel, StrIns}

MutationTexts == TokenTexts(MutationTokens, MaxTokens)

SliceTokens == {<<"A">>, <<"1">>, <<"u0663">>, <<"-">>, StrEq}

SliceTexts == TokenTexts(SliceTokens, MaxSliceTokens) \cup {StrWildtype}

SliceArgs == {None} \cup {Some(i) : i \in (0 - MaxIdx)..MaxIdx}

PayloadTokens == {<<"A">>, <<"a">>, <<"1">>, StrEq, StrDel, StrIns}

PayloadStrs == TokenTexts(PayloadTokens, MaxPayloadTokens)

WildtypeArgs == {<<>>, <<"A">>, <<"a">>}

Positions == 0..MaxPos

Lengths == (0 - 1)..MaxDel

(***************************************************************************)
(* The state: one call, its result, the result formatted, and the          *)
(* formatted text parsed again.                                            *)
(***************************************************************************)
Init ==
    /\ pc = "ready"
    /\ op = "none"
    /\ text = <<>>
    /\ start = None
    /\ end = None
    /\ val = NoValue
    /\ fmt = <<>>
    /\ back = NoValue

Return(name, result) ==
    /\ pc' = "called"
    /\ op' = name
    /\ val' = result
    /\ UNCHANGED <<fmt, back>>

\* Variant.from_str(variant)
CallFromStr ==
    /\ pc = "ready"
    /\ \E t \in Texts :
            /\ Return("from_str", FromStr(t))
            /\ text' = t
            /\ UNCHANGED <<start, end>>

\* Variant.parse(variant, start, end)
CallParse ==
    /\ pc = "ready"
    /\ \E t \in SliceTexts, st \in SliceArgs, en \in SliceArgs :
            /\ Return("parse", Parse(t, st, en))
            /\ text' = t
            /\ start' = st
            /\ end' = en

\* Mutation.from_str(mutation)
CallMutationFromStr ==
    /\ pc = "ready"
    /\ \E t \in MutationTexts :
            /\ Return("mutation_from_str", MutationFromStr(t))
            /\ text' = t
            /\ UNCHANGED <<start, end>>

\* Wildtype(), Missense(s), Insertion(s), Deletion(n)
CallWildtype ==
    /\ pc = "ready"
    /\ Return("Wildtype", MutationValue(Wildtype))
    /\ UNCHANGED <<text, start, end>>

CallMissense ==
    /\ pc = "ready"
    /\ \E s \in PayloadStrs :
            /\ Return("Missense", MutationValue(Missense(s)))
            /\ UNCHANGED <<text, start, end>>

CallInsertion ==
    /\ pc = "ready"
    /\ \E s \in PayloadStrs :
            /\ Return("Insertion", MutationValue(Insertion(s)))
            /\ UNCHANGED <<text, start, end>>

CallDeletion ==
    /\ pc = "ready"
    /\ \E n \in Lengths :
            /\ Return("Deletion", MutationValue(Deletion(n)))
            /\ UNCHANGED <<text, start, end>>

\* Variant(wildtype, position, mutation), the generated dataclass __init__
CallVariant ==
    /\ pc = "ready"
    /\ \E w \in WildtypeArgs, p \in Positions :
            /\ \/ Return("Variant", VariantValue(Variant(w, p, Wildtype)))
               \/ \E s \in PayloadStrs :
                    Return("Variant", VariantValue(Variant(w, p, Missense(s))))
               \/ \E s \in PayloadStrs :
                    Return("Variant", VariantValue(Variant(w, p, Insertion(s))))
               \/ \E n \in Lengths :
                    Return("Variant", VariantValue(Variant(w, p, Deletion(n))))
            /\ UNCHANGED <<text, start, end>>

CallFromDel ==
    /\ pc = "ready"
    /\ \E w \in WildtypeArgs, p \in Positions, n \in Lengths :
            /\ Return("from_del", VariantValue(FromDel(w, p, n)))
            /\ UNCHANGED <<text, start, end>>

CallFromIns ==
    /\ pc = "ready"
    /\ \E w \in WildtypeArgs, p \in Positions, s \in PayloadStrs :
            /\ Return("from_ins", VariantValue(FromIns(w, p, s)))
            /\ UNCHANGED <<text, start, end>>

CallFromWildtype ==
    /\ pc = "ready"
    /\ Return("from_wildtype", VariantValue(FromWildtype))
    /\ UNCHANGED <<text, start, end>>

CallFromSub ==
    /\ pc = "ready"
    /\ \E w \in WildtypeArgs, p \in Positions, s \in PayloadStrs :
            /\ Return("from_sub", VariantValue(FromSub(w, p, s)))
            /\ UNCHANGED <<text, start, end>>

\* str(value) of the Variant or Mutation a call returned
CallStr ==
    /\ pc = "called"
    /\ val.tag \in {"Variant", "Mutation"}
    /\ pc' = "formatted"
    /\ fmt' = IF val.tag = "Variant" THEN VariantStr(val.v) ELSE MutationStr(val.m)
    /\ UNCHANGED <<op, text, start, end, val, back>>

\* the formatted text handed back to from_str of the class it came from
CallReparse ==
    /\ pc = "formatted"
    /\ pc' = "reparsed"
    /\ back' = IF val.tag = "Variant" THEN FromStr(fmt) ELSE MutationFromStr(fmt)
    /\ UNCHANGED <<op, text, start, end, val, fmt>>

Next ==
    \/ CallFromStr
    \/ CallParse
    \/ CallMutationFromStr
    \/ CallWildtype
    \/ CallMissense
    \/ CallInsertion
    \/ CallDeletion
    \/ CallVariant
    \/ CallFromDel
    \/ CallFromIns
    \/ CallFromWildtype
    \/ CallFromSub
    \/ CallStr
    \/ CallReparse

Spec == Init /\ [][Next]_vars

(***************************************************************************)
(* Vocabulary of the properties.                                           *)
(***************************************************************************)
Formatted == pc \in {"formatted", "reparsed"}

Returned == pc \in {"called", "formatted", "reparsed"}

IsVariant(r) == r.tag = "Variant"

IsMutation(r) == r.tag = "Mutation"

Fails(r, err) == r.tag = "Error" /\ r.err = err

KindOf(r) == r.v.mutation.mutation_type

Unsliced == start = None /\ end = None

\* normalize: "wildtype" becomes "=", every other text is kept
Normalize(s) == IF s = StrWildtype THEN StrEq ELSE s

\* the grammar of the variant notation, as a split of the text into a letter,
\* a digit string and a mutation token
GrammarToken(m) ==
    \/ \E c \in UpperLetters : m = <<c>>
    \/ \E n \in 1..Len(m) :
         /\ Len(m) = 3 + n
         /\ SubSeq(m, 1, 3) = StrDel
         /\ \A i \in 4..Len(m) : IsDigit(m[i])
    \/ \E n \in 1..Len(m) :
         /\ Len(m) = 3 + n
         /\ SubSeq(m, 1, 3) = StrIns
         /\ \A i \in 4..Len(m) : m[i] \in UpperLetters

GrammarVariant(s) ==
    \E i \in 2..Len(s) :
        /\ s[1] \in UpperLetters
        /\ \A j \in 2..i : IsDigit(s[j])
        /\ GrammarToken(SubSeq(s, i + 1, Len(s)))

Accepted(s) == s \in {StrWildtype, StrEq} \/ GrammarVariant(s)

\* the half-open slice s[st:en] as the characters whose 0-based index lies in
\* [lo, hi), a negative bound counting from the end of the text
HalfOpenFrom(b, len, default) ==
    IF ~b.given THEN default ELSE IF b.idx < 0 THEN b.idx + len ELSE b.idx

HalfOpen(s, st, en) ==
    LET lo == HalfOpenFrom(st, Len(s), 0)
        hi == HalfOpenFrom(en, Len(s), Len(s))
        inside == {i \in 0..(Len(s) - 1) : lo <= i /\ i < hi}
    IN  IF inside = {} THEN <<>>
        ELSE LET first == CHOOSE i \in inside : \A j \in inside : i <= j
             IN  [k \in 1..Cardinality(inside) |-> s[first + k]]

SameOutcome(a, b) ==
    /\ a.tag = b.tag
    /\ a.tag = "Error" => a.err = b.err
    /\ a.tag = "Variant" => VariantEq(a.v, b.v)

\* the arguments the construction round trip is stated for
ValidVariantArgs(v) ==
    /\ Len(v.wildtype) = 1
    /\ v.wildtype[1] \in UpperLetters
    /\ v.position >= 1
    /\ \/ v.mutation.mutation_type = "SUB"
          /\ Len(v.mutation.mutation) = 1
          /\ AllUpper(v.mutation.mutation)
       \/ v.mutation.mutation_type = "INS"
          /\ v.mutation.mutation # <<>>
          /\ AllUpper(v.mutation.mutation)
       \/ v.mutation.mutation_type = "DEL"
          /\ v.mutation.mutation >= 0

ValidMutationArgs(m) ==
    \/ m.mutation_type = "WT"
    \/ m.mutation_type = "SUB" /\ m.mutation # <<>>
    \/ m.mutation_type = "INS" /\ m.mutation # <<>> /\ AllUpper(m.mutation)
    \/ m.mutation_type = "DEL" /\ m.mutation >= 0

IsSentinel(v) ==
    /\ v.wildtype = <<>>
    /\ v.position = 0
    /\ v.mutation.mutation_type = "WT"

VariantCtors == {"Variant", "from_sub", "from_ins", "from_del"}

MutationCtors == {"Wildtype", "Missense", "Insertion", "Deletion"}

(***************************************************************************)
(* Properties.                                                             *)
(***************************************************************************)

\* C1: whenever Variant.from_str accepted a text, formatting the returned
\* Variant gives the text back, "wildtype" normalized to "=" (leading zeros
\* of the position or of the deletion length included).
C1_FormatOfParseIsNormalizedText ==
    (Formatted /\ op = "from_str" /\ IsVariant(val)) => fmt = Normalize(text)

\* C2: a Variant built from an uppercase wildtype letter, a position >= 1 and
\* a one-letter substitution, a non-empty uppercase insertion or a deletion
\* of non-negative length is parsed back from its formatted text, equal in
\* all three fields.
C2_ParseOfFormatIsVariant ==
    (pc = "reparsed" /\ op \in VariantCtors /\ ValidVariantArgs(val.v))
        => (IsVariant(back) /\ VariantEq(back.v, val.v))

C2_Witness ==
    /\ pc = "reparsed"
    /\ op = "from_del"
    /\ ValidVariantArgs(val.v)
    /\ val.v.position >= 10
    /\ IsVariant(back)

\* C3: from_wildtype(), parse("=") and parse("wildtype") (and from_str of the
\* same two texts) all return the Variant with wildtype "", position 0 and
\* mutation kind Wildtype, equal to each other, and it formats to "=".
C3_SentinelIsUnique ==
    (/\ Returned
     /\ \/ op = "from_wildtype"
        \/ op = "from_str" /\ text \in {StrEq, StrWildtype}
        \/ op = "parse" /\ text \in {StrEq, StrWildtype} /\ Unsliced)
        => /\ IsVariant(val)
           /\ IsSentinel(val.v)
           /\ VariantEq(val.v, FromWildtype)
           /\ Formatted => fmt = StrEq

C3_Witness ==
    /\ pc = "formatted"
    /\ op = "parse"
    /\ text = StrWildtype
    /\ Unsliced
    /\ IsVariant(val)

\* C4: parsing a whole text returns a Variant exactly when the text is
\* "wildtype", "=" or a sentence of the anchored grammar; every other text
\* fails with InvalidVariant, and no text fails with InvalidDeletionLength.
C4_ParseAcceptsExactlyTheGrammar ==
    (/\ pc = "called"
     /\ \/ op = "from_str"
        \/ op = "parse" /\ Unsliced)
        => /\ IsVariant(val) <=> Accepted(text)
           /\ ~IsVariant(val) => Fails(val, "InvalidVariant")

C4_Witness ==
    /\ pc = "called"
    /\ op = "from_str"
    /\ Len(text) > 1
    /\ GrammarVariant(SubSeq(text, 1, Len(text) - 1))
    /\ Fails(val, "InvalidVariant")

\* C5: for a text that starts with "del", Mutation.from_str returns a
\* Deletion of non-negative length, equal to the remainder read as a decimal
\* number, or fails with InvalidDeletionLength.
C5_DelGivesNonNegativeDeletionOrFails ==
    (pc = "called" /\ op = "mutation_from_str" /\ StartsWith(text, StrDel))
        => \/ /\ IsMutation(val)
              /\ val.m.mutation_type = "DEL"
              /\ val.m.mutation >= 0
              /\ AllDigits(SubSeq(text, 4, Len(text)))
                    => val.m.mutation = DigitsValue(SubSeq(text, 4, Len(text)), 0)
           \/ Fails(val, "InvalidDeletionLength")

\* C6: Mutation.from_str dispatches in the order "=", "ins" prefix, "del"
\* prefix, substitution: "=" gives Wildtype, an "ins" prefix gives an
\* Insertion of the remainder, a "del" prefix never gives a Substitution,
\* and every other text gives the Substitution of the text verbatim.
C6_PrefixesPrecedeSubstitution ==
    (pc = "called" /\ op = "mutation_from_str")
        => /\ text = StrEq
                => IsMutation(val) /\ val.m.mutation_type = "WT"
           /\ StartsWith(text, StrIns)
                => /\ IsMutation(val)
                   /\ val.m.mutation_type = "INS"
                   /\ val.m.mutation = SubSeq(text, 4, Len(text))
           /\ StartsWith(text, StrDel)
                => ~(IsMutation(val) /\ val.m.mutation_type = "SUB")
           /\ (IsMutation(val) /\ val.m.mutation_type = "SUB")
                <=> /\ text # StrEq
                    /\ ~StartsWith(text, StrIns)
                    /\ ~StartsWith(text, StrDel)
           /\ (IsMutation(val) /\ val.m.mutation_type = "SUB")
                => val.m.mutation = text

C6_Witness ==
    /\ pc = "called"
    /\ op = "mutation_from_str"
    /\ StartsWith(text, StrDel)
    /\ IsMutation(val)
    /\ val.m.mutation_type = "DEL"
    /\ val.m.mutation > 0

\* C7: Variant.parse(text, start, end) has the outcome of Variant.from_str on
\* the half-open slice text[start:end], an omitted bound meaning the
\* beginning or the end of the text.
C7_ParseIsFromStrOfSlice ==
    (pc = "called" /\ op = "parse")
        => SameOutcome(val, FromStr(HalfOpen(text, start, end)))

C7_Witness ==
    /\ pc = "called"
    /\ op = "parse"
    /\ start.given
    /\ start.idx > 0
    /\ IsVariant(val)
    /\ KindOf(val) = "SUB"

\* C8 as claimed: every Variant any constructor or parser returns, the
\* three-field constructor included, has wildtype "" and position 0 when
\* its mutation kind is Wildtype.
C8_WildtypeKindImpliesSentinelFields ==
    (Returned /\ IsVariant(val) /\ KindOf(val) = "WT") => IsSentinel(val.v)

\* C8 as amended: every Variant returned by from_sub, from_ins, from_del,
\* from_wildtype, from_str or parse has wildtype "" and position 0 when its
\* mutation kind is Wildtype; the three-field constructor is not covered.
C8_FactoriesKeepSentinelFields ==
    (Returned /\ op # "Variant" /\ IsVariant(val) /\ KindOf(val) = "WT")
        => IsSentinel(val.v)

C8_Witness ==
    /\ pc = "called"
    /\ op = "from_str"
    /\ text = StrWildtype
    /\ IsVariant(val)
    /\ KindOf(val) = "WT"

\* C9: a Variant returned by Variant.from_str or Variant.parse whose mutation
\* kind is Substitution, Insertion or Deletion has a position of at least 1.
C9_ParsedPositionIsOneBased ==
    (Returned /\ op \in {"from_str", "parse"} /\ IsVariant(val)
        /\ KindOf(val) # "WT")
        => val.v.position >= 1

\* C10: formatting what Mutation.from_str returned gives the text back, and
\* a Mutation built by a constructor from a valid payload is parsed back
\* from its formatted text with the same kind and payload.
C10_MutationFormatAndParseAreInverses ==
    /\ (Formatted /\ op = "mutation_from_str") => fmt = text
    /\ (pc = "reparsed" /\ op \in MutationCtors /\ ValidMutationArgs(val.m))
            => (IsMutation(back) /\ MutationEq(back.m, val.m))

====
